---- MODULE Spec2Model ----
(***************************************************************************)
(* Model of deepext_with_lightning/dataset/classification.py:              *)
(*   CSVAnnotationDataset                  (base catalog dataset)          *)
(*   CSVAnnotationDatasetWithOverSampling  (over-sampling view)            *)
(*   CSVAnnotationDatasetWithUnderSampling (under-sampling view)           *)
(*                                                                         *)
(* An OrderedDict is a sequence of <<key, value>> pairs with distinct      *)
(* keys, in insertion order.  Image decoding and the transform callable    *)
(* are external collaborators: an item is identified by the pair           *)
(* <<filename, label>> that __getitem__ resolves before it opens the file  *)
(* (transforms = None).                                                    *)
(***************************************************************************)
EXTENDS Integers, Sequences, FiniteSets, TLC

VARIABLES pc, rows, label_dict, catalog, over, over_args, under, under_args, ret

vars == <<pc, rows, label_dict, catalog, over, over_args, under, under_args, ret>>

(***************************************************************************)
(* Bounds of the model.                                                    *)
(***************************************************************************)
\* most entries in a catalog handed to the constructor
MaxFiles == 3
\* largest over-sampling replication factor
MaxRate == 2
\* most records in a label file
MaxRows == 3

\* class ids of the application's fixed class set: two classes, as in the
\* two-class scenarios of the repository's documentation
Labels == {0, 1}
NClasses == Cardinality(Labels)

(***************************************************************************)
(* Python helpers.                                                         *)
(***************************************************************************)
RECURSIVE SumSeq(_)
\* sum(list)
SumSeq(s) == IF s = <<>> THEN 0 ELSE Head(s) + SumSeq(Tail(s))

RECURSIVE Repeat(_, _)
\* [x] * n  (n <= 0 gives the empty list)
Repeat(x, n) == IF n <= 0 THEN <<>> ELSE <<x>> \o Repeat(x, n - 1)

\* seq[idx] is defined: Python accepts -len <= idx < len
InRange(s, idx) == idx >= 0 - Len(s) /\ idx < Len(s)

\* seq[idx] with Python's negative indexing
PyIndex(s, idx) == IF idx >= 0 THEN s[idx + 1] ELSE s[Len(s) + idx + 1]

\* dict.keys(), dict.values()
Keys(d) == [i \in 1..Len(d) |-> d[i][1]]
Values(d) == [i \in 1..Len(d) |-> d[i][2]]

HasKey(d, k) == \E i \in 1..Len(d) : d[i][1] = k

\* dict[k], for a key that is present
Lookup(d, k) == d[CHOOSE i \in 1..Len(d) : d[i][1] = k][2]

\* Put with the bug "an overwritten key moves to the end" (del d[k]; d[k] = v)
PutMoveToEnd(d, k, v) ==
    Append(SelectSeq(d, LAMBDA e : e[1] # k), <<k, v>>)

\* d[k] = v on an OrderedDict: an existing key keeps its position
Put(d, k, v) ==
    IF HasKey(d, k)
    THEN [i \in 1..Len(d) |-> IF d[i][1] = k THEN <<k, v>> ELSE d[i]]
    ELSE Append(d, <<k, v>>)

(***************************************************************************)
(* Label file parsing.                                                     *)
(* A path is the sequence of its components; a label token is a string.    *)
(* "sup2" stands for the one-character token U+00B2 (superscript two), for *)
(* which str.isdigit() is True and int() raises ValueError.                *)
(***************************************************************************)
Paths == { <<"a.jpg">>, <<"dir", "a.jpg">>, <<"b.jpg">> }
DecimalTokens == {"0", "1", "01"}
NameTokens == {"cat", "dog"}
Tokens == DecimalTokens \cup NameTokens \cup {"sup2"}

\* Path(p).name
PathName(p) == p[Len(p)]

\* str.isdigit(): every character has the Unicode property Digit
IsDigit(t) == t \in DecimalTokens \cup {"sup2"}

\* int(t) succeeds: every character is a decimal digit
IntParses(t) == t \in DecimalTokens

\* int(t)
ToInt(t) == CASE t = "0" -> 0 [] t = "1" -> 1 [] t = "01" -> 1

\* the lookup tables a caller may pass (None: no table)
\* label_dict = None is [given |-> FALSE]
NoDict == [given |-> FALSE, table |-> <<>>]
LabelDicts ==
    {NoDict} \cup
    { [given |-> TRUE, table |-> t] :
        t \in { <<>>, << <<"cat", 0>> >>, << <<"cat", 1>>, <<"dog", 0>> >> } }

\* label_dict.get(label) is None
GetIsNone(ld, k) == ~HasKey(ld.table, k)

\* label_dict.get(label), when it is not None
DictGet(ld, k) == Lookup(ld.table, k)

OkResult(v) == [err |-> "none", val |-> v]
ErrResult(e) == [err |-> e, val |-> <<>>]

RECURSIVE ParseRows(_, _, _, _)
\* the loop of _create_filename_label_dict from record i on
ParseRows(rs, ld, i, filename_label_dict) ==
    IF i > Len(rs) THEN OkResult(filename_label_dict)
    ELSE LET filename == PathName(rs[i][1])
             label == rs[i][2]
         IN  IF ~IsDigit(label)
             THEN IF ~ld.given
                  THEN ErrResult("RuntimeError")
                  ELSE LET label_num == DictGet(ld, label)
                       IN  IF GetIsNone(ld, label)
                           THEN ParseRows(rs, ld, i + 1, filename_label_dict)
                           ELSE ParseRows(rs, ld, i + 1,
                                          Put(filename_label_dict, filename, label_num))
             ELSE IF ~IntParses(label)
                  THEN ErrResult("ValueError")
                  ELSE ParseRows(rs, ld, i + 1,
                                 Put(filename_label_dict, filename, ToInt(label)))

CreateFilenameLabelDict(rs, ld) == ParseRows(rs, ld, 1, <<>>)

(***************************************************************************)
(* CSVAnnotationDataset.                                                   *)
(***************************************************************************)
RECURSIVE CountLabels(_, _, _)
\* for label in labels[i..]: result[label] += 1   (class c is result[c + 1])
CountLabels(labels, i, result) ==
    IF i > Len(labels) THEN OkResult(result)
    ELSE IF labels[i] >= Len(result)
         THEN ErrResult("IndexError")
         ELSE CountLabels(labels, i + 1,
                          [result EXCEPT ![labels[i] + 1] = @ + 1])

\* CSVAnnotationDataset.labels_distribution
LabelsDistribution(filepath_label_dict, n_classes) ==
    CountLabels(Values(filepath_label_dict), 1, [c \in 1..n_classes |-> 0])

\* CSVAnnotationDataset.__len__
DatasetLen(filepath_label_dict) == Len(filepath_label_dict)

\* CSVAnnotationDataset.__getitem__, up to the pair it resolves
GetItem(filepath_label_dict, idx) ==
    IF InRange(filepath_label_dict, idx)
    THEN OkResult(PyIndex(filepath_label_dict, idx))
    ELSE ErrResult("IndexError")

RECURSIVE FilterKeysOneBased(_, _, _)
\* FilterKeys with the bug "positions count from 1" (enumerate(keys, 1))
FilterKeysOneBased(keys, indices, i) ==
    IF i > Len(keys) THEN <<>>
    ELSE (IF i \in indices THEN << <<i, keys[i]>> >> ELSE <<>>)
         \o FilterKeysOneBased(keys, indices, i + 1)

RECURSIVE FilterKeys(_, _, _)
\* filter(lambda index_key: index_key[0] in indices, enumerate(keys)), from
\* position i on (positions count from 0)
FilterKeys(keys, indices, i) ==
    IF i > Len(keys) THEN <<>>
    ELSE (IF (i - 1) \in indices THEN << <<i - 1, keys[i]>> >> ELSE <<>>)
         \o FilterKeys(keys, indices, i + 1)

RECURSIVE CopyKeys(_, _, _, _)
\* for _, key in new_annotation_dict_keys[i..]: new[key] = old[key]
CopyKeys(index_keys, i, old, new) ==
    IF i > Len(index_keys) THEN new
    ELSE CopyKeys(index_keys, i + 1, old,
                  Put(new, index_keys[i][2], Lookup(old, index_keys[i][2])))

\* SplitDataset with the bug "the entries left out are deleted from self"
SplitDatasetInPlace(filepath_label_dict, indices) ==
    LET kept == SelectSeq([i \in 1..Len(filepath_label_dict) |->
                              <<i - 1, filepath_label_dict[i]>>],
                          LAMBDA e : e[1] \in indices)
        new == [i \in 1..Len(kept) |-> kept[i][2]]
    IN  [self |-> new, new |-> new]

\* CSVAnnotationDataset.split_dataset: self._filepath_label_dict when it
\* returns (self), and the dict of the dataset it returns (new)
SplitDataset(filepath_label_dict, indices) ==
    LET new_annotation_dict_keys == FilterKeys(Keys(filepath_label_dict), indices, 1)
    IN  [self |-> filepath_label_dict,
         new |-> CopyKeys(new_annotation_dict_keys, 1, filepath_label_dict, <<>>)]

(***************************************************************************)
(* CSVAnnotationDatasetWithOverSampling.                                   *)
(***************************************************************************)
RECURSIVE Reduce(_, _, _)
\* functools.reduce(lambda a, b: a + b, lists) from element i on, acc so far
Reduce(lists, i, acc) ==
    IF i > Len(lists) THEN acc ELSE Reduce(lists, i + 1, acc \o lists[i])

\* CSVAnnotationDatasetWithOverSampling.__init__
OverSamplingInit(annotation_dict, over_sampling_rate) ==
    IF \E i \in 1..Len(annotation_dict) :
            annotation_dict[i][2] >= Len(over_sampling_rate)
    THEN ErrResult("IndexError")
    ELSE LET lists == [i \in 1..Len(annotation_dict) |->
                        Repeat(annotation_dict[i][1],
                               over_sampling_rate[annotation_dict[i][2] + 1])]
         IN  IF lists = <<>>
             THEN ErrResult("TypeError")   \* reduce() of empty sequence
             ELSE OkResult([alive |-> TRUE,
                            annotation_dict |-> annotation_dict,
                            file_name_list |-> Reduce(lists, 2, lists[1])])

\* CSVAnnotationDatasetWithOverSampling.__len__
OverLen(view) == Len(view.file_name_list)

\* CSVAnnotationDatasetWithOverSampling.__getitem__, up to the pair it resolves
OverGetItem(view, idx) ==
    IF InRange(view.file_name_list, idx)
    THEN LET filename == PyIndex(view.file_name_list, idx)
         IN  OkResult(<<filename, Lookup(view.annotation_dict, filename)>>)
    ELSE ErrResult("IndexError")

\* OverLabelsDistribution with the bug "scans the catalog, not the virtual index"
OverLabelsDistributionCatalog(view, n_classes) ==
    CountLabels(Values(view.annotation_dict), 1, [c \in 1..n_classes |-> 0])

\* CSVAnnotationDatasetWithOverSampling.labels_distribution
OverLabelsDistribution(view, n_classes) ==
    CountLabels([i \in 1..Len(view.file_name_list) |->
                    Lookup(view.annotation_dict, view.file_name_list[i])],
                1, [c \in 1..n_classes |-> 0])

(***************************************************************************)
(* CSVAnnotationDatasetWithUnderSampling.                                  *)
(* A float rate is the pair <<numerator, denominator>> of a dyadic         *)
(* rational, so rate * count is exact in binary floating point.  An entry  *)
(* of _norm_label_dist is the reduced fraction <<n, d>>; 0/0 (numpy's nan) *)
(* is <<0, 0>>.                                                            *)
(***************************************************************************)
UnderRates == { <<0, 1>>, <<1, 2>>, <<1, 1>> }

\* PyRound with the bug "a tie goes up" (int(x + 0.5))
PyRoundHalfUp(num, den, count) == (2 * num * count + den) \div (2 * den)

\* Python 3 round(x) of the float x = num * count / den: nearest integer,
\* a tie goes to the even one
PyRound(num, den, count) ==
    LET n == num * count
        q == n \div den
        r == n % den
    IN  IF 2 * r < den THEN q
        ELSE IF 2 * r > den THEN q + 1
        ELSE IF q % 2 = 0 THEN q ELSE q + 1

RECURSIVE Gcd(_, _)
Gcd(a, b) == IF b = 0 THEN a ELSE Gcd(b, a % b)

\* x / total as numpy computes it for one entry
Fraction(x, total) ==
    IF total = 0 THEN <<0, 0>>
    ELSE LET g == Gcd(x, total) IN <<x \div g, total \div g>>

Min(a, b) == IF a < b THEN a ELSE b

RECURSIVE GroupByClass(_, _, _)
\* for filename, label in items[i..]: by_classes[label].append(filename)
GroupByClass(annotation_dict, i, by_classes) ==
    IF i > Len(annotation_dict) THEN OkResult(by_classes)
    ELSE IF annotation_dict[i][2] >= Len(by_classes)
         THEN ErrResult("IndexError")
         ELSE GroupByClass(annotation_dict, i + 1,
                  [by_classes EXCEPT ![annotation_dict[i][2] + 1] =
                        Append(@, annotation_dict[i][1])])

\* list(map(lambda x_y: round(x_y[0] * x_y[1]), zip(under_sampling_rate, label_dist)))
SampledLabelDist(under_sampling_rate, label_dist) ==
    [c \in 1..Min(Len(under_sampling_rate), Len(label_dist)) |->
        PyRound(under_sampling_rate[c][1], under_sampling_rate[c][2], label_dist[c])]

\* np.array(label_dist) / sum(label_dist)
NormLabelDist(label_dist) ==
    [c \in 1..Len(label_dist) |-> Fraction(label_dist[c], SumSeq(label_dist))]

\* UnderSamplingInit with the bug "classes are drawn by the sampled (target)
\* distribution, not the original one"
UnderSamplingInitSampledWeights(annotation_dict, label_dist, under_sampling_rate) ==
    LET n_classes == Len(under_sampling_rate)
        grouped == GroupByClass(annotation_dict, 1, [c \in 1..n_classes |-> <<>>])
        sampled_label_dist == SampledLabelDist(under_sampling_rate, label_dist)
    IN  IF grouped.err # "none" THEN grouped
        ELSE OkResult([alive |-> TRUE,
                       annotation_dict |-> annotation_dict,
                       n_classes |-> n_classes,
                       filenames_by_classes |-> grouped.val,
                       sampled_label_dist |-> sampled_label_dist,
                       data_len |-> SumSeq(sampled_label_dist),
                       norm_label_dist |-> NormLabelDist(sampled_label_dist)])

\* CSVAnnotationDatasetWithUnderSampling.__init__
UnderSamplingInit(annotation_dict, label_dist, under_sampling_rate) ==
    LET n_classes == Len(under_sampling_rate)
        grouped == GroupByClass(annotation_dict, 1, [c \in 1..n_classes |-> <<>>])
        sampled_label_dist == SampledLabelDist(under_sampling_rate, label_dist)
    IN  IF grouped.err # "none" THEN grouped
        ELSE OkResult([alive |-> TRUE,
                       annotation_dict |-> annotation_dict,
                       n_classes |-> n_classes,
                       filenames_by_classes |-> grouped.val,
                       sampled_label_dist |-> sampled_label_dist,
                       data_len |-> SumSeq(sampled_label_dist),
                       norm_label_dist |-> NormLabelDist(label_dist)])

\* CSVAnnotationDatasetWithUnderSampling.__len__
UnderLen(view) == view.data_len

\* CSVAnnotationDatasetWithUnderSampling.labels_distribution
UnderLabelsDistribution(view) == view.sampled_label_dist

\* np.random.choice(a, p=p) accepts its arguments: a is not empty, p has a's
\* size, no entry of p is nan and p sums to 1
ChoiceAccepts(n, p) ==
    /\ n > 0
    /\ Len(p) = n
    /\ \A c \in 1..Len(p) : p[c][2] # 0

\* the classes np.random.choice(range(n_classes), p=p) can return
DrawableClasses(view) ==
    { c \in 0..(view.n_classes - 1) : view.norm_label_dist[c + 1][1] > 0 }

\* UnderGetItem with the bug "the filename is drawn by position"
\* (filenames[np.random.randint(len(filenames))]): an empty class fails in
\* randint or in the indexing, not in np.random.choice(filenames)
UnderGetItemByPosition(view, idx) ==
    IF ~ChoiceAccepts(view.n_classes, view.norm_label_dist)
    THEN { [err |-> "ValueError_line31", val |-> <<>>, drawn |-> -1] }
    ELSE UNION {
           LET filenames == view.filenames_by_classes[label + 1]
           IN  IF filenames = <<>>
               THEN { [err |-> "IndexError", val |-> <<>>, drawn |-> label] }
               ELSE { [err |-> "none",
                       val |-> <<filenames[k], Lookup(view.annotation_dict, filenames[k])>>,
                       drawn |-> label] : k \in 1..Len(filenames) }
           : label \in DrawableClasses(view) }

\* CSVAnnotationDatasetWithUnderSampling.__getitem__, up to the pair it
\* resolves: every outcome the two random draws can produce.  idx is not read.
UnderGetItem(view, idx) ==
    IF ~ChoiceAccepts(view.n_classes, view.norm_label_dist)
    THEN { [err |-> "ValueError_line31", val |-> <<>>, drawn |-> -1] }
    ELSE UNION {
           LET filenames == view.filenames_by_classes[label + 1]
           IN  IF filenames = <<>>
               THEN { [err |-> "ValueError_line33", val |-> <<>>, drawn |-> label] }
               ELSE { [err |-> "none",
                       val |-> <<filenames[k], Lookup(view.annotation_dict, filenames[k])>>,
                       drawn |-> label] : k \in 1..Len(filenames) }
           : label \in DrawableClasses(view) }

\* CSVAnnotationDataset.apply_over_sampling
ApplyOverSampling(filepath_label_dict, over_sampling_rate) ==
    OverSamplingInit(filepath_label_dict, over_sampling_rate)

\* CSVAnnotationDataset.apply_under_sampling
ApplyUnderSampling(filepath_label_dict, under_sampling_rate) ==
    LET label_dist == LabelsDistribution(filepath_label_dict, Len(under_sampling_rate))
    IN  IF label_dist.err # "none" THEN label_dist
        ELSE UnderSamplingInit(filepath_label_dict, label_dist.val, under_sampling_rate)

NoView == [alive |-> FALSE]
NoRet == [op |-> "none", arg |-> <<>>, err |-> "none", val |-> <<>>, drawn |-> -1]
Ret(op, arg, res) ==
    [op |-> op, arg |-> arg, err |-> res.err, val |-> res.val, drawn |-> -1]

RowSeqs == UNION { [1..n -> Paths \X Tokens] : n \in 0..MaxRows }

InitParse ==
    /\ pc = "start"
    /\ rows \in RowSeqs
    /\ label_dict \in LabelDicts
    /\ catalog = <<>>
    /\ over = NoView /\ over_args = <<>>
    /\ under = NoView /\ under_args = <<>>
    /\ ret = NoRet

\* CSVAnnotationDataset.create
Create ==
    /\ pc = "start"
    /\ LET res == CreateFilenameLabelDict(rows, label_dict)
       IN  /\ pc' = IF res.err = "none" THEN "ready" ELSE "failed"
           /\ catalog' = res.val
           /\ ret' = Ret("create", <<>>, res)
    /\ UNCHANGED <<rows, label_dict, over, over_args, under, under_args>>

NextParse == Create

SpecParse == InitParse /\ [][NextParse]_vars

(***************************************************************************)
(* The dataset operations, on a CSVAnnotationDataset constructed from any  *)
(* OrderedDict of at most MaxFiles entries.  The model follows the first   *)
(* over-sampling view and the first under-sampling view that are built.    *)
(***************************************************************************)
FileNames == <<"a.jpg", "b.jpg", "c.jpg", "d.jpg", "e.jpg", "f.jpg">>

\* The code compares filenames for equality only, so the i-th key of a
\* catalog is FileNames[i] without loss of generality.
Catalogs ==
    UNION { { [i \in 1..k |-> <<FileNames[i], labels[i]>>] :
                labels \in [1..k -> Labels] }
            : k \in 0..MaxFiles }

OverRates == UNION { [1..n -> 0..MaxRate] : n \in 0..NClasses }
UnderRateSeqs == UNION { [1..n -> UnderRates] : n \in 0..NClasses }
LabelDists == UNION { [1..n -> 0..MaxFiles] : n \in 0..NClasses }

Init ==
    /\ pc = "ready"
    /\ rows = <<>>
    /\ label_dict = NoDict
    /\ catalog \in Catalogs
    /\ over = NoView /\ over_args = <<>>
    /\ under = NoView /\ under_args = <<>>
    /\ ret = NoRet

Frame == UNCHANGED <<pc, rows, label_dict, catalog>>

\* len(dataset)
LenOp ==
    /\ pc = "ready"
    /\ ret' = Ret("len", <<>>, OkResult(DatasetLen(catalog)))
    /\ Frame /\ UNCHANGED <<over, over_args, under, under_args>>

\* dataset[idx]
GetItemOp ==
    /\ pc = "ready"
    /\ \E idx \in -1..MaxFiles :
          ret' = Ret("getitem", idx, GetItem(catalog, idx))
    /\ Frame /\ UNCHANGED <<over, over_args, under, under_args>>

\* dataset.labels_distribution(n_classes)
LabelsDistributionOp ==
    /\ pc = "ready"
    /\ \E n_classes \in 0..NClasses :
          ret' = Ret("labels_distribution", n_classes,
                     LabelsDistribution(catalog, n_classes))
    /\ Frame /\ UNCHANGED <<over, over_args, under, under_args>>

\* dataset.split_dataset(indices)
SplitDatasetOp ==
    /\ pc = "ready"
    /\ \E indices \in SUBSET (0..(MaxFiles - 1)) :
          LET res == SplitDataset(catalog, indices)
          IN  /\ catalog' = res.self
              /\ ret' = Ret("split_dataset", indices, OkResult(res.new))
    /\ UNCHANGED <<pc, rows, label_dict, over, over_args, under, under_args>>

\* dataset.apply_over_sampling(over_sampling_rate)
ApplyOverSamplingOp ==
    /\ pc = "ready"
    /\ ~over.alive
    /\ \E over_sampling_rate \in OverRates :
          LET res == ApplyOverSampling(catalog, over_sampling_rate)
          IN  /\ over' = IF res.err = "none" THEN res.val ELSE NoView
              /\ over_args' = IF res.err = "none" THEN over_sampling_rate ELSE <<>>
              /\ ret' = [op |-> "apply_over_sampling", arg |-> over_sampling_rate,
                         err |-> res.err, val |-> <<>>, drawn |-> -1]
    /\ Frame /\ UNCHANGED <<under, under_args>>

\* len(over)
OverLenOp ==
    /\ pc = "ready" /\ over.alive
    /\ ret' = Ret("over.len", <<>>, OkResult(OverLen(over)))
    /\ Frame /\ UNCHANGED <<over, over_args, under, under_args>>

\* over[idx]
OverGetItemOp ==
    /\ pc = "ready" /\ over.alive
    /\ \E idx \in -1..(MaxFiles * MaxRate) :
          ret' = Ret("over.getitem", idx, OverGetItem(over, idx))
    /\ Frame /\ UNCHANGED <<over, over_args, under, under_args>>

\* over.labels_distribution(n_classes)
OverLabelsDistributionOp ==
    /\ pc = "ready" /\ over.alive
    /\ \E n_classes \in 0..NClasses :
          ret' = Ret("over.labels_distribution", n_classes,
                     OverLabelsDistribution(over, n_classes))
    /\ Frame /\ UNCHANGED <<over, over_args, under, under_args>>

\* dataset.apply_under_sampling(under_sampling_rate)
ApplyUnderSamplingOp ==
    /\ pc = "ready"
    /\ ~under.alive
    /\ \E under_sampling_rate \in UnderRateSeqs :
          LET res == ApplyUnderSampling(catalog, under_sampling_rate)
          IN  /\ under' = IF res.err = "none" THEN res.val ELSE NoView
              /\ under_args' = IF res.err = "none"
                               THEN [by |-> "apply_under_sampling",
                                     under_sampling_rate |-> under_sampling_rate]
                               ELSE <<>>
              /\ ret' = [op |-> "apply_under_sampling", arg |-> under_sampling_rate,
                         err |-> res.err, val |-> <<>>, drawn |-> -1]
    /\ Frame /\ UNCHANGED <<over, over_args>>

\* CSVAnnotationDatasetWithUnderSampling(image_dir, annotation_dict, transforms,
\*                                       label_dist, under_sampling_rate)
\* called directly on the catalog's dict, with any label_dist
NewUnderSamplingOp ==
    /\ pc = "ready"
    /\ ~under.alive
    /\ \E label_dist \in LabelDists, under_sampling_rate \in UnderRateSeqs :
          LET res == UnderSamplingInit(catalog, label_dist, under_sampling_rate)
          IN  /\ under' = IF res.err = "none" THEN res.val ELSE NoView
              /\ under_args' = IF res.err = "none"
                               THEN [by |-> "__init__",
                                     under_sampling_rate |-> under_sampling_rate]
                               ELSE <<>>
              /\ ret' = [op |-> "under.__init__", arg |-> <<label_dist, under_sampling_rate>>,
                         err |-> res.err, val |-> <<>>, drawn |-> -1]
    /\ Frame /\ UNCHANGED <<over, over_args>>

\* len(under)
UnderLenOp ==
    /\ pc = "ready" /\ under.alive
    /\ ret' = Ret("under.len", <<>>, OkResult(UnderLen(under)))
    /\ Frame /\ UNCHANGED <<over, over_args, under, under_args>>

\* under[idx]
UnderGetItemOp ==
    /\ pc = "ready" /\ under.alive
    /\ \E idx \in -1..1 :
       \E res \in UnderGetItem(under, idx) :
          ret' = [op |-> "under.getitem", arg |-> idx,
                  err |-> res.err, val |-> res.val, drawn |-> res.drawn]
    /\ Frame /\ UNCHANGED <<over, over_args, under, under_args>>

\* under.labels_distribution()
UnderLabelsDistributionOp ==
    /\ pc = "ready" /\ under.alive
    /\ ret' = Ret("under.labels_distribution", <<>>,
                  OkResult(UnderLabelsDistribution(under)))
    /\ Frame /\ UNCHANGED <<over, over_args, under, under_args>>

Next ==
    \/ LenOp
    \/ GetItemOp
    \/ LabelsDistributionOp
    \/ SplitDatasetOp
    \/ ApplyOverSamplingOp
    \/ OverLenOp
    \/ OverGetItemOp
    \/ OverLabelsDistributionOp
    \/ ApplyUnderSamplingOp
    \/ UnderLenOp
    \/ UnderGetItemOp
    \/ UnderLabelsDistributionOp

Spec == Init /\ [][Next]_vars

NextDirect ==
    \/ NewUnderSamplingOp
    \/ UnderLenOp
    \/ UnderGetItemOp
    \/ UnderLabelsDistributionOp

SpecDirect == Init /\ [][NextDirect]_vars
(***************************************************************************)
(* Properties.                                                             *)
(***************************************************************************)
\* the entries of a catalog, as a set
Entries(d) == { d[i] : i \in 1..Len(d) }

\* the number of catalog entries labeled c
ClassCount(d, c) == Cardinality({ i \in 1..Len(d) : d[i][2] = c })

RECURSIVE RateSum(_, _, _)
\* the sum over the first i entries of d of rate[label(entry)]
RateSum(d, rate, i) ==
    IF i = 0 THEN 0 ELSE RateSum(d, rate, i - 1) + rate[d[i][2] + 1]

\* list is d's filenames in d's order, the i-th repeated rate[label] times
IsReplicatedIndex(list, d, rate) ==
    /\ Len(list) = RateSum(d, rate, Len(d))
    /\ \A i \in 1..Len(d) :
         \A q \in (RateSum(d, rate, i - 1) + 1)..RateSum(d, rate, i) :
            list[q] = d[i][1]

\* C1: for every catalog, the empty one included, and every over-sampling
\* rate with one non-negative integer per class, apply_over_sampling builds
\* the view, and its virtual index is the catalog's filenames in catalog
\* order, each repeated rate[label] consecutive times (so its length is the
\* sum of rate[label] over the entries).
C1_OverSamplingIndex ==
    (ret.op = "apply_over_sampling" /\ Len(ret.arg) = NClasses)
    => /\ ret.err = "none"
       /\ over.alive
       /\ IsReplicatedIndex(over.file_name_list, catalog, ret.arg)

\* C1, supporting lemma: the statement holds for every non-empty catalog, and
\* an empty catalog always fails in reduce().
C1_NonEmptyLemma ==
    (ret.op = "apply_over_sampling" /\ Len(ret.arg) = NClasses)
    => IF catalog = <<>>
       THEN ret.err = "TypeError" /\ ~over.alive
       ELSE /\ ret.err = "none"
            /\ over.alive
            /\ IsReplicatedIndex(over.file_name_list, catalog, ret.arg)
            /\ OverLen(over) = RateSum(catalog, ret.arg, Len(catalog))

\* C2: labels_distribution(n) of an over-sampling view built with rate r is,
\* class by class, the base catalog's labels_distribution(n) times r[c]; a
\* class with rate 0 (or with no rate and no entries) counts 0.
C2_OverSamplingDistribution ==
    (ret.op = "over.labels_distribution" /\ over.alive)
    => LET base == LabelsDistribution(catalog, ret.arg)
       IN  base.err = "none"
           => /\ ret.err = "none"
              /\ Len(ret.val) = ret.arg
              /\ \A c \in 1..ret.arg :
                   ret.val[c] = IF c <= Len(over_args)
                                THEN base.val[c] * over_args[c]
                                ELSE 0

\* C2 witness: a distribution was read from a view that doubles one
\* populated class and drops another populated class.
C2_Witness ==
    /\ ret.op = "over.labels_distribution" /\ over.alive
    /\ ret.err = "none" /\ ret.arg = NClasses /\ Len(over_args) = NClasses
    /\ \E c \in 1..ret.arg :
         over_args[c] = 2 /\ ClassCount(catalog, c - 1) = 2 /\ ret.val[c] = 4
    /\ \E c \in 1..ret.arg :
         over_args[c] = 0 /\ ClassCount(catalog, c - 1) > 0 /\ ret.val[c] = 0

\* k is round(num / den * count): the nearest integer, the even one on a tie
IsRounded(k, rate, count) ==
    LET num == rate[1]
        den == rate[2]
        diff == k * den - num * count
        dist == IF diff < 0 THEN 0 - diff ELSE diff
    IN  /\ 2 * dist <= den
        /\ (2 * dist = den) => (k % 2 = 0)

\* C3: for an under-sampling view derived from the base catalog with rate r,
\* labels_distribution() is the per-class array round(r[c] * original_count[c])
\* with original_count = the base catalog's labels_distribution(len(r)),
\* length() is its sum, and both stay so in every later state (after any get).
C3_UnderSamplingLength ==
    (under.alive /\ under_args.by = "apply_under_sampling")
    => LET r == under_args.under_sampling_rate
           original_count == LabelsDistribution(catalog, Len(r))
           target == UnderLabelsDistribution(under)
       IN  /\ original_count.err = "none"
           /\ Len(target) = Len(r)
           /\ \A c \in 1..Len(r) : IsRounded(target[c], r[c], original_count.val[c])
           /\ UnderLen(under) = SumSeq(target)
           /\ (ret.op = "under.len") => (ret.val = SumSeq(target))
           /\ (ret.op = "under.labels_distribution") => (ret.val = target)

\* C3 witness: after a get on a derived view, with a class of 3 entries kept
\* at rate 1/2 (the tie 1.5, target 2) and a class of 1 entry kept at rate
\* 1/2 (the tie 0.5, target 0).
C3_Witness ==
    /\ under.alive /\ under_args.by = "apply_under_sampling"
    /\ ret.op = "under.getitem" /\ ret.err = "none"
    /\ \E c \in 1..under.n_classes :
         /\ under_args.under_sampling_rate[c] = <<1, 2>>
         /\ ClassCount(catalog, c - 1) = 3
         /\ under.sampled_label_dist[c] = 2
         /\ under.data_len = 2

\* C3, second witness: a length was read from a derived view in which a
\* class of 1 entry kept at rate 1/2 (the tie 0.5) has target 0.
C3_WitnessTieDown ==
    /\ under.alive /\ under_args.by = "apply_under_sampling"
    /\ ret.op = "under.len" /\ ret.val = 1
    /\ \E c, e \in 1..under.n_classes :
         /\ under_args.under_sampling_rate[c] = <<1, 2>>
         /\ ClassCount(catalog, c - 1) = 1
         /\ under.sampled_label_dist[c] = 0
         /\ under.sampled_label_dist[e] = 1

\* the j-th smallest element of a finite set of integers
JthSmallest(S, j) ==
    CHOOSE x \in S : Cardinality({ y \in S : y < x }) = j - 1

\* C4: split_dataset(indices) with a set of M distinct positions in [0, K)
\* returns a dataset of length M whose j-th entry is the original entry at
\* the j-th smallest index.
C4_Split ==
    (ret.op = "split_dataset" /\ ret.arg \subseteq 0..(Len(catalog) - 1))
    => /\ Len(ret.val) = Cardinality(ret.arg)
       /\ \A j \in 1..Len(ret.val) :
            ret.val[j] = catalog[JthSmallest(ret.arg, j) + 1]

\* C4 witness: positions 0 and 2 of a 3-entry catalog were split off.
C4_Witness ==
    /\ ret.op = "split_dataset" /\ ret.arg = {0, 2}
    /\ Len(catalog) = 3
    /\ ret.val = <<catalog[1], catalog[3]>>

RowName(i) == PathName(rows[i][1])
RowToken(i) == rows[i][2]

\* a non-negative integer literal: decimal digits only
IsIntegerLiteral(t) == t \in DecimalTokens

FirstIdx(kept, name) ==
    CHOOSE i \in 1..Len(kept) :
        kept[i][1] = name /\ \A j \in 1..(i - 1) : kept[j][1] # name
LastIdx(kept, name) ==
    CHOOSE i \in 1..Len(kept) :
        kept[i][1] = name /\ \A j \in (i + 1)..Len(kept) : kept[j][1] # name

\* cat is the ordered mapping of the <<name, value>> records kept: one entry
\* per distinct name, in the order of first occurrence, with the last value
IsCatalogOf(cat, kept) ==
    /\ \A a, b \in 1..Len(cat) : a # b => cat[a][1] # cat[b][1]
    /\ { cat[a][1] : a \in 1..Len(cat) } = { kept[i][1] : i \in 1..Len(kept) }
    /\ \A a \in 1..Len(cat) : cat[a][2] = kept[LastIdx(kept, cat[a][1])][2]
    /\ \A a, b \in 1..Len(cat) :
         a < b => FirstIdx(kept, cat[a][1]) < FirstIdx(kept, cat[b][1])

AllIntegerLabels == \A i \in 1..Len(rows) : IsIntegerLiteral(RowToken(i))
IntRecords == [i \in 1..Len(rows) |-> <<RowName(i), ToInt(RowToken(i))>>]
NoDuplicateNames ==
    \A i, j \in 1..Len(rows) : i # j => RowName(i) # RowName(j)

\* C5: a file whose labels are all integers parses to one entry per distinct
\* base filename, with the label of the filename's last record, in the order
\* of first occurrence; without duplicates the catalog is the input sequence.
C5_ParsedCatalog ==
    (pc # "start" /\ AllIntegerLabels)
    => /\ pc = "ready"
       /\ IsCatalogOf(catalog, IntRecords)
       /\ DatasetLen(catalog) = Cardinality({ RowName(i) : i \in 1..Len(rows) })
       /\ NoDuplicateNames => catalog = IntRecords

\* C5 witness: a.jpg, b.jpg, then a.jpg again under another directory and
\* with another label: a.jpg stays first and carries the later label.
C5_Witness ==
    /\ pc = "ready" /\ AllIntegerLabels /\ Len(rows) = 3
    /\ rows[1][1] # rows[3][1]
    /\ RowName(1) = RowName(3) /\ RowName(1) # RowName(2)
    /\ ToInt(RowToken(1)) # ToInt(RowToken(3))
    /\ catalog = << <<RowName(1), ToInt(RowToken(3))>>,
                    <<RowName(2), ToInt(RowToken(2))>> >>

\* C6: with no lookup table, create fails with the configuration error
\* (RuntimeError) exactly when some record's label token is not a
\* non-negative integer literal, and a failed create returns no catalog.
C6_ConfigurationError ==
    (pc # "start" /\ ~label_dict.given)
    => /\ (pc = "failed" /\ ret.err = "RuntimeError")
          <=> (\E i \in 1..Len(rows) : ~IsIntegerLiteral(RowToken(i)))
       /\ pc = "failed" => catalog = <<>>

\* C6, supporting lemma: the statement holds for every file without a token
\* that str.isdigit() accepts and int() rejects.
C6_DecimalLemma ==
    (\A i \in 1..Len(rows) : IsDigit(RowToken(i)) => IntParses(RowToken(i)))
    => C6_ConfigurationError

\* a record the lookup table does not resolve
Skipped(i) ==
    ~IsIntegerLiteral(RowToken(i)) /\ ~HasKey(label_dict.table, RowToken(i))

KeptIdx == SelectSeq([i \in 1..Len(rows) |-> i], LAMBDA i : ~Skipped(i))
KeptRecords ==
    [j \in 1..Len(KeptIdx) |->
        LET i == KeptIdx[j]
        IN  <<RowName(i),
              IF IsIntegerLiteral(RowToken(i)) THEN ToInt(RowToken(i))
              ELSE Lookup(label_dict.table, RowToken(i))>>]

\* C7: with a lookup table, a record whose label name is absent from the
\* table is skipped without aborting: parsing reaches the end of the file
\* and the catalog is the one of the other records alone (integer labels and
\* names the table maps, to 0 included).
C7_SkipUnknownNames ==
    (pc # "start" /\ label_dict.given)
    => /\ pc = "ready"
       /\ IsCatalogOf(catalog, KeptRecords)

\* C7, supporting lemma: the statement holds for every file without a token
\* that str.isdigit() accepts and int() rejects.
C7_DecimalLemma ==
    (\A i \in 1..Len(rows) : IsDigit(RowToken(i)) => IntParses(RowToken(i)))
    => C7_SkipUnknownNames

\* C8: a get on an under-sampling view that draws a class of positive
\* probability with no catalog filename fails in the filename draw (line 33,
\* the specification's EmptyClassError) and returns no item; the view was
\* constructed without error, whatever label distribution it was given.
C8_EmptyClassError ==
    /\ (ret.op = "under.getitem" /\ ret.drawn >= 0)
       => /\ under.alive
          /\ under.norm_label_dist[ret.drawn + 1][1] > 0
          /\ (ClassCount(catalog, ret.drawn) = 0)
             <=> (ret.err = "ValueError_line33" /\ ret.val = <<>>)
          /\ (ClassCount(catalog, ret.drawn) = 0) \/ ret.err = "none"
    /\ (ret.op = "under.__init__"
        /\ \A i \in 1..Len(catalog) : catalog[i][2] < Len(ret.arg[2]))
       => ret.err = "none"

\* C8 witness: a view constructed directly with a label distribution that
\* counts a class the non-empty catalog does not hold; a get drew that class.
C8_Witness ==
    /\ ret.op = "under.getitem" /\ ret.err = "ValueError_line33"
    /\ under_args.by = "__init__"
    /\ catalog # <<>>
    /\ ClassCount(catalog, ret.drawn) = 0

\* C9: in an under-sampling view derived by apply_under_sampling from a
\* non-empty catalog, a get never draws an empty class and resolves to an
\* entry <<f, catalog[f]>>; for every index argument the possible results are
\* all the catalog's entries, whatever the rate.
C9_UnderSamplingDraw ==
    (under.alive /\ under_args.by = "apply_under_sampling" /\ catalog # <<>>)
    => /\ \A idx \in -1..(Len(catalog) + 1) :
            /\ \A res \in UnderGetItem(under, idx) : res.err = "none"
            /\ { res.val : res \in UnderGetItem(under, idx) } = Entries(catalog)
       /\ (ret.op = "under.getitem")
          => /\ ret.err = "none"
             /\ ret.val \in Entries(catalog)
             /\ ret.val[2] = ret.drawn
             /\ ClassCount(catalog, ret.drawn) > 0

\* C9 witness: a get with an out-of-range index returned an entry of a class
\* whose rate is 0.
C9_Witness ==
    /\ under.alive /\ under_args.by = "apply_under_sampling"
    /\ ret.op = "under.getitem" /\ ret.err = "none" /\ ret.arg = -1
    /\ under_args.under_sampling_rate[ret.val[2] + 1] = <<0, 1>>
    /\ under.data_len = 0

\* C10: no dataset operation changes the base catalog's entries or order, or
\* the virtual index (or dict) of an over-sampling view that exists.
C10_Immutable ==
    [][ /\ catalog' = catalog
        /\ over.alive => over' = over ]_vars

\* C10 witness: with both views built, a split returned fewer entries than
\* the catalog, which still has all of its entries.
C10_Witness ==
    /\ over.alive /\ under.alive
    /\ ret.op = "split_dataset"
    /\ Len(ret.val) < Len(catalog)
    /\ Len(catalog) = MaxFiles
    /\ over.annotation_dict = catalog
====
